---------------------------- MODULE Spec2Model ----------------------------
(***************************************************************************)
(* UniversalProvider (src/unnamed/part_000, lines 116-319): automatic      *)
(* detection of the gateway's billing format and normalisation of its      *)
(* usage figures.  One fetchUsage invocation on one instance is modelled   *)
(* as a state machine whose steps are the JavaScript macrotasks: the call  *)
(* itself and the arrival of each HTTP response, each followed by the      *)
(* whole chain of promise continuations up to the next network await.      *)
(*                                                                         *)
(* Strings are sequences of one-character strings, so that                 *)
(* String.prototype.replace(/\/$/, '') and String.prototype.includes are   *)
(* computed, not assumed.  Monetary amounts are exact fractions of a       *)
(* dollar in lowest terms, so that the divisions by 100 and by 500000      *)
(* lose nothing; the rounding of IEEE doubles is not modelled.             *)
(***************************************************************************)
EXTENDS Integers, Sequences, FiniteSets, TLC

VARIABLES
    apiKeyArg,      \* constructor argument apiKey
    endpointArg,    \* constructor argument endpoint
    apiKey,         \* this.apiKey
    endpoint,       \* this.endpoint (one trailing slash removed)
    pc,             \* where the invocation is suspended
    issued,         \* the requests handed to this.client.get, in order
    inflight,       \* ids of the requests whose promise is not settled
    outcome,        \* id -> how the request's promise settled
    hardLimitUsd,   \* local of tryNewAPIBilling
    detected,       \* probe -> what the detector returned to the loop
    result,         \* what fetchUsage returned
    thrown,         \* fetchUsage rejected instead of returning
    clock,          \* the instant, the time zone and the dates derived
    duo,            \* two UniversalProvider instances side by side
    ext,            \* the module-level state of the extension
    cc              \* the files of CC Switch and what was read from them

\* the state of the one invocation
provider == <<apiKeyArg, endpointArg, apiKey, endpoint, pc, issued, inflight,
              outcome, hardLimitUsd, detected, result, thrown>>

vars == <<apiKeyArg, endpointArg, apiKey, endpoint, pc, issued, inflight,
          outcome, hardLimitUsd, detected, result, thrown, clock, duo, ext, cc>>

----------------------------------------------------------------------------
(* Bounds of the model. *)

\* wire numbers 0..MaxSmall are tried besides the landmark values
MaxSmall == 1

----------------------------------------------------------------------------
(* Program constants. *)

CentsPerDollar == 100
OneAPIDivisor == 500000
UnlimitedThreshold == 1000000

----------------------------------------------------------------------------
(* Strings. *)

Https == <<"h","t","t","p","s",":","/","/">>
OpenRouterHost == <<"o","p","e","n","r","o","u","t","e","r",".","a","i">>
ExampleHost == <<"a","p","i",".","e","x","a","m","p","l","e",".","c","o","m">>

\* String.prototype.includes
Includes(s, sub) ==
    \E i \in 0..(Len(s) - Len(sub)) : SubSeq(s, i + 1, i + Len(sub)) = sub

\* endpoint.replace(/\/$/, ''): removes one slash at the end of the string
StripTrailingSlash(s) ==
    IF Len(s) > 0 /\ s[Len(s)] = "/" THEN SubSeq(s, 1, Len(s) - 1) ELSE s

\* the values of the apiKey setting that are tried
ApiKeys == { <<>>, <<"s","k">> }

\* the values of the endpoint setting that are tried
Endpoints ==
    { <<>>,
      <<"/">>,
      Https \o ExampleHost,
      Https \o ExampleHost \o <<"/">>,
      Https \o OpenRouterHost \o <<"/","a","p","i">>,
      Https \o OpenRouterHost \o <<"/">>,
      Https \o SubSeq(OpenRouterHost, 1, Len(OpenRouterHost) - 1) }


----------------------------------------------------------------------------
(* JSON values and response bodies as axios hands them over. *)

Undefined == [t |-> "undefined"]
Num(n) == [t |-> "number", n |-> n]
\* any non-null object, e.g. the value of an "error" member
SomeObject == [t |-> "object"]
\* the JSON value null
JsonNull == [t |-> "null"]

\* JavaScript truthiness of the values above
Truthy(v) ==
    CASE v.t \in {"undefined", "null"} -> FALSE
      [] v.t = "number" -> v.n # 0
      [] OTHER -> TRUE

\* v || 0, for v a number or undefined
OrZero(v) == IF Truthy(v) THEN v.n ELSE 0

\* a JSON number with decimals, n/d: 12.34 is Dec(1234, 100)
Dec(n, d) == [t |-> "number", n |-> n, d |-> d]

\* response.data of an empty body ('' or null) and of a body that is not JSON
NoBody == [kind |-> "empty"]
TextBody == [kind |-> "text"]

\* member access v.name: undefined when the member is missing
Get(v, name) == IF name \in DOMAIN v THEN v[name] ELSE Undefined

\* !response.data
BodyFalsy(b) == b.kind = "empty"

\* response.data?.name
OptGet(b, name) == IF BodyFalsy(b) THEN Undefined ELSE Get(b, name)

SmallNumbers == 0..MaxSmall
Optional(S) == {Undefined} \cup {Num(n) : n \in S}

\* hard_limit_usd, in dollars
HardLimits == SmallNumbers \cup {50, UnlimitedThreshold - 1, UnlimitedThreshold}

\* total_usage, in cents, per date window
UsageCents(w) ==
    SmallNumbers \cup
    (CASE w = "today" -> {250} [] w = "month" -> {4000} [] OTHER -> {4500})

\* quota and used_quota, in quota units
Quotas == SmallNumbers \cup {2500000}
UsedQuotas == SmallNumbers \cup {500000}

\* usage and limit of OpenRouter, in dollars
OpenRouterAmounts == SmallNumbers \cup {100}

SubscriptionBodies ==
    {NoBody, TextBody}
    \cup {[kind |-> "object", hard_limit_usd |-> h] : h \in Optional(HardLimits)}
    \cup {[kind |-> "object", hard_limit_usd |-> h, error |-> SomeObject] :
            h \in {Undefined, Num(50)}}
    \cup {[kind |-> "object", hard_limit_usd |-> Num(50), error |-> JsonNull]}

UsageBodies(w) ==
    {NoBody, TextBody}
    \cup {[kind |-> "object", total_usage |-> u] : u \in Optional(UsageCents(w))}

SelfBodies ==
    {NoBody, TextBody, [kind |-> "object", data |-> Undefined]}
    \cup {[kind |-> "object",
           data |-> [t |-> "object", quota |-> q, used_quota |-> u]] :
            q \in Optional(Quotas), u \in Optional(UsedQuotas)}

KeyBodies ==
    {NoBody, TextBody, [kind |-> "object", data |-> Undefined]}
    \cup {[kind |-> "object",
           data |-> [t |-> "object", usage |-> u, limit |-> l]] :
            u \in Optional(OpenRouterAmounts) \cup {Dec(1234, 100)},
            l \in Optional(OpenRouterAmounts)}

\* how the promise of this.client.get settles: it rejects on an HTTP error
\* status, on the 30 s timeout and on a network failure
Rejected == [st |-> "rejected"]
Fulfilled(body) == [st |-> "fulfilled", data |-> body]
Outcomes(bodies) == {Rejected} \cup {Fulfilled(b) : b \in bodies}

\* a request that has not settled, and one that settled after its probe
\* had already returned, so that nothing reads how it settled
Pending == [st |-> "pending"]
Unobserved == [st |-> "unobserved"]

----------------------------------------------------------------------------
(* Requests. *)

Windows == {"today", "month", "year"}
RequestIds == {"subscription", "self", "key"} \cup Windows
Probes == <<"NewAPI", "OneAPI", "OpenRouter">>

\* `${this.endpoint}<path>` is kept as the pair of its two parts
SubscriptionRequest(e) ==
    [id |-> "subscription", probe |-> "NewAPI",
     url |-> [base |-> e, path |-> "/v1/dashboard/billing/subscription"]]
UsageRequest(e, w) ==
    [id |-> w, probe |-> "NewAPI",
     url |-> [base |-> e, path |-> "/v1/dashboard/billing/usage"],
     params |-> [start_date |-> w, end_date |-> "today"]]
SelfRequest(e) ==
    [id |-> "self", probe |-> "OneAPI",
     url |-> [base |-> e, path |-> "/api/user/self"]]
KeyRequest ==
    [id |-> "key", probe |-> "OpenRouter",
     url |-> [base |-> Https \o OpenRouterHost, path |-> "/api/v1/auth/key"]]


----------------------------------------------------------------------------
(* UsageResult and what a detector hands to the loop of fetchUsage. *)

\* the number 0 of a UsageResult
Zero == [num |-> 0, den |-> 1]

UsageResult(today, month, used, total, remaining, type) ==
    [todayUsed |-> today, monthUsed |-> month, totalUsed |-> used,
     total |-> total, remaining |-> remaining, type |-> type]

\* the 'unknown' record built without its error member
SentinelWithoutError(msg) ==
    [todayUsed |-> Zero, monthUsed |-> Zero, totalUsed |-> Zero,
     total |-> Zero, remaining |-> Zero, type |-> "unknown"]

\* the 'unknown' record with its error member
Sentinel(msg) ==
    [todayUsed |-> Zero, monthUsed |-> Zero, totalUsed |-> Zero,
     total |-> Zero, remaining |-> Zero, type |-> "unknown", error |-> msg]

HasError(r) == "error" \in DOMAIN r

\* a detector returned null; a detector or fetchUsage threw; no value yet
Null == [tag |-> "null"]
Throw == [tag |-> "throw"]
None == [tag |-> "none"]

IsRecord(x) == "type" \in DOMAIN x

----------------------------------------------------------------------------
(* Amounts of money: the numbers of a UsageResult, in dollars. *)

Abs(n) == IF n < 0 THEN -n ELSE n

RECURSIVE GCD(_, _)
GCD(a, b) == IF b = 0 THEN a ELSE GCD(b, a % b)

\* n/d dollars, d > 0, in lowest terms
Amount(n, d) ==
    LET g == GCD(d, Abs(n)) IN [num |-> n \div g, den |-> d \div g]

\* a wire number taken as dollars
Dollars(n) == Amount(n, 1)

\* a / n, a + b, a - b
Div(a, n) == Amount(a.num, a.den * n)
Plus(a, b) ==
    LET l == (a.den \div GCD(a.den, b.den)) * b.den
    IN  Amount(a.num * (l \div a.den) + b.num * (l \div b.den), l)
Minus(a, b) == Plus(a, [num |-> -b.num, den |-> b.den])

----------------------------------------------------------------------------
(* The detectors: the code between two awaits, as functions. *)

\* catch { return null } around the body of each detector
TryCatch(x) == IF x = Throw THEN Null ELSE x

\* tryNewAPIBilling from the subscription response to the usage requests:
\* "continue" stands for going on to the three usage requests
\* the subscription accepted without the test of its error member
NewAPISubscribedUnchecked(o) ==
    TryCatch(
        IF o.st = "rejected" THEN Throw
        ELSE IF BodyFalsy(o.data) THEN Null
        ELSE [tag |-> "continue",
              hardLimitUsd |-> OrZero(Get(o.data, "hard_limit_usd"))])

\* tryNewAPIBilling from the settled subscription request to its test
NewAPISubscribed(o) ==
    TryCatch(
        IF o.st = "rejected" THEN Throw
        ELSE IF BodyFalsy(o.data) \/ Truthy(Get(o.data, "error")) THEN Null
        ELSE [tag |-> "continue",
              hardLimitUsd |-> OrZero(Get(o.data, "hard_limit_usd"))])

\* Promise.all over the three usage requests: rejected as soon as one of
\* them is, fulfilled once all of them are
UsageJoin(outs) ==
    IF \E w \in Windows : outs[w].st = "rejected" THEN "rejected"
    ELSE IF \E w \in Windows : outs[w].st = "pending" THEN "pending"
    ELSE "fulfilled"

\* (response.data?.total_usage || 0) / 100
UsedDollars(o) ==
    Div(Dollars(OrZero(OptGet(o.data, "total_usage"))), CentsPerDollar)

\* the threshold compared with > for >=
IsUnlimitedStrict(limit) == limit > UnlimitedThreshold

IsUnlimited(limit) == limit >= UnlimitedThreshold

\* tryNewAPIBilling once Promise.all is fulfilled
NewAPIRecord(limit, outs) ==
    LET todayUsed == UsedDollars(outs["today"])
        monthUsed == UsedDollars(outs["month"])
        totalUsed == UsedDollars(outs["year"])
    IN  UsageResult(todayUsed, monthUsed, totalUsed,
                    IF IsUnlimited(limit) THEN Zero ELSE Dollars(limit),
                    IF IsUnlimited(limit) THEN Zero
                    ELSE Minus(Dollars(limit), totalUsed),
                    "NewAPI")

\* Promise.allSettled with a rejected request counted as no usage
NewAPIJoinedSettled(limit, outs) ==
    LET filled == [id \in DOMAIN outs |->
                     IF outs[id].st = "rejected" THEN Fulfilled(NoBody)
                     ELSE outs[id]]
    IN  IF \E w \in Windows : outs[w].st = "pending" THEN None
        ELSE NewAPIRecord(limit, filled)

\* a join that waits for all three requests before it fails
NewAPIJoinedBlocking(limit, outs) ==
    IF \E w \in Windows : outs[w].st = "pending" THEN None
    ELSE IF \E w \in Windows : outs[w].st = "rejected" THEN Null
    ELSE NewAPIRecord(limit, outs)

\* tryNewAPIBilling from a settled usage request on
NewAPIJoined(limit, outs) ==
    TryCatch(
        CASE UsageJoin(outs) = "rejected" -> Throw
          [] UsageJoin(outs) = "fulfilled" -> NewAPIRecord(limit, outs)
          [] OTHER -> None)

\* the divisor of OneAPIProvider, 1000000, in place of 500000
QuotaDollarsMillion(v) == Div(Dollars(OrZero(v)), 2 * OneAPIDivisor)

QuotaDollars(v) == Div(Dollars(OrZero(v)), OneAPIDivisor)

OneAPIRecord(data) ==
    LET quota == QuotaDollars(Get(data, "quota"))
        usedQuota == QuotaDollars(Get(data, "used_quota"))
    IN  UsageResult(Zero, Zero, usedQuota, Plus(quota, usedQuota), quota,
                    "OneAPI")

\* tryOneAPI from the response on
OneAPIResponded(o) ==
    TryCatch(
        IF o.st = "rejected" THEN Throw
        ELSE LET data == OptGet(o.data, "data")
             IN  IF ~Truthy(data) THEN Null ELSE OneAPIRecord(data))

\* v || 0 as an amount, for v a number, with or without decimals, or undefined
OrZeroDollars(v) ==
    IF Truthy(v) THEN Amount(v.n, IF "d" \in DOMAIN v THEN v.d ELSE 1) ELSE Zero

\* the remaining balance computed without the test on the limit
OpenRouterRecordUnguarded(data) ==
    LET usage == OrZeroDollars(Get(data, "usage"))
        limit == OrZeroDollars(Get(data, "limit"))
    IN  UsageResult(Zero, Zero, usage, limit, Minus(limit, usage), "OpenRouter")

OpenRouterRecord(data) ==
    LET usage == OrZeroDollars(Get(data, "usage"))
        limit == OrZeroDollars(Get(data, "limit"))
    IN  UsageResult(Zero, Zero, usage, limit,
                    IF limit.num > 0 THEN Minus(limit, usage) ELSE Zero,
                    "OpenRouter")

\* tryOpenRouter without its guard
OpenRouterAlways(e) == TRUE

\* the guard of tryOpenRouter
OpenRouterApplies(e) == Includes(e, OpenRouterHost)

\* tryOpenRouter from the response on
OpenRouterResponded(o) ==
    TryCatch(
        IF o.st = "rejected" THEN Throw
        ELSE LET data == OptGet(o.data, "data")
             IN  IF ~Truthy(data) THEN Null ELSE OpenRouterRecord(data))


----------------------------------------------------------------------------
(* fetchUsage: the guard, the loop over the detectors, the two sentinels. *)

\* the guard written with && for ||
ConfigMissingBoth(key, e) == key = <<>> /\ e = <<>>

\* !this.apiKey || !this.endpoint
ConfigMissing(key, e) == key = <<>> \/ e = <<>>

NotConfigured == Sentinel("API Key or Endpoint not configured")

\* the test on result.error without its negation
AcceptErroneous(x) == x # Null /\ HasError(x)

\* result && !result.error
Accept(x) == x # Null /\ ~HasError(x)

\* the record returned with the limit that tryNewAPIBilling had read
ReturnedMerged(x) == [x EXCEPT !.total = Dollars(hardLimitUsd)]

\* return result
Returned(x) == x

\* the other sentinel's message after the loop; a throw after the loop
ExhaustedAsNotConfigured == NotConfigured
ExhaustedThrows == Throw

\* what fetchUsage does after the loop
Exhausted == Sentinel("Unable to detect API type")

\* The loop from the point where a detector has produced x, as the next
\* control state: where the invocation suspends or ends, the requests it
\* issues on the way, what each detector has produced, and what fetchUsage
\* produces.  A detector that throws is caught by the loop and skipped.
Finish(det, x) ==
    [pc |-> "returned", reqs |-> <<>>, detected |-> det, out |-> x]

AfterOpenRouter(x, det) ==
    LET d == [det EXCEPT !.OpenRouter = x]
    IN  IF x # Throw /\ Accept(x) THEN Finish(d, Returned(x))
        ELSE Finish(d, Exhausted)

StartOpenRouter(e, det) ==
    IF ~OpenRouterApplies(e) THEN AfterOpenRouter(Null, det)
    ELSE [pc |-> "awaitKey", reqs |-> <<KeyRequest>>, detected |-> det,
          out |-> None]

\* the loop starting over with the first detector when the second fails
AfterOneAPIRestart(e, x, det) ==
    LET d == [det EXCEPT !.OneAPI = x]
    IN  IF x # Throw /\ Accept(x) THEN Finish(d, Returned(x))
        ELSE [pc |-> "awaitSubscription", reqs |-> <<SubscriptionRequest(e)>>,
              detected |-> d, out |-> None]

AfterOneAPI(e, x, det) ==
    LET d == [det EXCEPT !.OneAPI = x]
    IN  IF x # Throw /\ Accept(x) THEN Finish(d, Returned(x))
        ELSE StartOpenRouter(e, d)

StartOneAPI(e, det) ==
    [pc |-> "awaitSelf", reqs |-> <<SelfRequest(e)>>, detected |-> det,
     out |-> None]

\* the first detector tried a second time when it fails
AfterNewAPIRetry(e, x, det) ==
    LET d == [det EXCEPT !.NewAPI = x]
    IN  IF x # Throw /\ Accept(x) THEN Finish(d, Returned(x))
        ELSE IF det.NewAPI = None
             THEN [pc |-> "awaitSubscription",
                   reqs |-> <<SubscriptionRequest(e)>>,
                   detected |-> d, out |-> None]
             ELSE StartOneAPI(e, d)

AfterNewAPI(e, x, det) ==
    LET d == [det EXCEPT !.NewAPI = x]
    IN  IF x # Throw /\ Accept(x) THEN Finish(d, Returned(x))
        ELSE StartOneAPI(e, d)

StartNewAPI(e, det) ==
    [pc |-> "awaitSubscription", reqs |-> <<SubscriptionRequest(e)>>,
     detected |-> det, out |-> None]

\* the three usage requests, created in the order of the array literal
UsageRequests(e) ==
    <<UsageRequest(e, "today"), UsageRequest(e, "month"),
      UsageRequest(e, "year")>>

\* the first two detectors started together rather than one after the other
CalledConcurrent(key, e, det) ==
    IF ConfigMissing(key, e) THEN Finish(det, NotConfigured)
    ELSE [pc |-> "awaitSubscription",
          reqs |-> <<SubscriptionRequest(e), SelfRequest(e)>>,
          detected |-> det, out |-> None]

\* fetchUsage from its call to its first await or its return
Called(key, e, det) ==
    IF ConfigMissing(key, e) THEN Finish(det, NotConfigured)
    ELSE StartNewAPI(e, det)

----------------------------------------------------------------------------
(* The state machine. *)

Ids(reqs) == {reqs[i].id : i \in 1..Len(reqs)}

\* move to control state c, the request `settled` (if any) leaving flight
Goto(c, settled) ==
    /\ pc' = c.pc
    /\ issued' = issued \o c.reqs
    /\ inflight' = (inflight \ settled) \cup Ids(c.reqs)
    /\ detected' = c.detected
    /\ result' = IF c.out = Throw THEN None ELSE c.out
    /\ thrown' = (c.out = Throw)

Init ==
    /\ apiKeyArg \in ApiKeys
    /\ endpointArg \in Endpoints
    /\ apiKey = apiKeyArg
    /\ endpoint = StripTrailingSlash(endpointArg)
    /\ pc = "NotStarted"
    /\ issued = <<>>
    /\ inflight = {}
    /\ outcome = [id \in RequestIds |-> Pending]
    /\ hardLimitUsd = 0
    /\ detected = [NewAPI |-> None, OneAPI |-> None, OpenRouter |-> None]
    /\ result = None
    /\ thrown = FALSE
    /\ clock = None
    /\ duo = None
    /\ ext = None
    /\ cc = None

\* the caller invokes fetchUsage()
FetchUsage ==
    /\ pc = "NotStarted"
    /\ Goto(Called(apiKey, endpoint, detected), {})
    /\ UNCHANGED <<apiKeyArg, endpointArg, apiKey, endpoint, outcome,
                   hardLimitUsd, clock, duo, ext, cc>>

\* the subscription request settles
SubscriptionSettles ==
    /\ pc = "awaitSubscription"
    /\ "subscription" \in inflight
    /\ \E o \in Outcomes(SubscriptionBodies) :
        LET x == NewAPISubscribed(o)
        IN  /\ outcome' = [outcome EXCEPT !["subscription"] = o]
            /\ IF x = Null
               THEN /\ Goto(AfterNewAPI(endpoint, Null, detected),
                            {"subscription"})
                    /\ UNCHANGED hardLimitUsd
               ELSE /\ hardLimitUsd' = x.hardLimitUsd
                    /\ Goto([pc |-> "awaitUsage",
                             reqs |-> UsageRequests(endpoint),
                             detected |-> detected, out |-> None],
                            {"subscription"})
    /\ UNCHANGED <<apiKeyArg, endpointArg, apiKey, endpoint, clock, duo, ext, cc>>

\* one of the three usage requests settles while Promise.all is pending
UsageSettles ==
    /\ pc = "awaitUsage"
    /\ \E w \in Windows \cap inflight :
       \E o \in Outcomes(UsageBodies(w)) :
        LET outs == [outcome EXCEPT ![w] = o]
            x == NewAPIJoined(hardLimitUsd, outs)
        IN  /\ outcome' = outs
            /\ IF x = None
               THEN Goto([pc |-> "awaitUsage", reqs |-> <<>>,
                          detected |-> detected, out |-> None], {w})
               ELSE Goto(AfterNewAPI(endpoint, x, detected), {w})
    /\ UNCHANGED <<apiKeyArg, endpointArg, apiKey, endpoint, hardLimitUsd,
                   clock, duo, ext, cc>>

\* a usage request settles after Promise.all has rejected: nothing awaits it
UsageSettlesUnobserved ==
    /\ pc # "awaitUsage"
    /\ \E w \in Windows \cap inflight :
        /\ outcome' = [outcome EXCEPT ![w] = Unobserved]
        /\ inflight' = inflight \ {w}
    /\ UNCHANGED <<apiKeyArg, endpointArg, apiKey, endpoint, pc, issued,
                   hardLimitUsd, detected, result, thrown, clock, duo, ext, cc>>

\* the request to /api/user/self settles
SelfSettles ==
    /\ pc = "awaitSelf"
    /\ "self" \in inflight
    /\ \E o \in Outcomes(SelfBodies) :
        /\ outcome' = [outcome EXCEPT !["self"] = o]
        /\ Goto(AfterOneAPI(endpoint, OneAPIResponded(o), detected), {"self"})
    /\ UNCHANGED <<apiKeyArg, endpointArg, apiKey, endpoint, hardLimitUsd,
                   clock, duo, ext, cc>>

\* the request to openrouter.ai settles
KeySettles ==
    /\ pc = "awaitKey"
    /\ "key" \in inflight
    /\ \E o \in Outcomes(KeyBodies) :
        /\ outcome' = [outcome EXCEPT !["key"] = o]
        /\ Goto(AfterOpenRouter(OpenRouterResponded(o), detected), {"key"})
    /\ UNCHANGED <<apiKeyArg, endpointArg, apiKey, endpoint, hardLimitUsd,
                   clock, duo, ext, cc>>

Next ==
    \/ FetchUsage
    \/ SubscriptionSettles
    \/ UsageSettles
    \/ UsageSettlesUnobserved
    \/ SelfSettles
    \/ KeySettles

Spec == Init /\ [][Next]_vars


\* The invocations on an unset endpoint and on an OpenRouter endpoint (the
\* one for which all three detectors issue requests), where fetchUsage is
\* called and every request issued settles in the end.
FairEndpoints == { <<>>, Https \o OpenRouterHost \o <<"/","a","p","i">> }
FairInit == Init /\ endpointArg \in FairEndpoints
FairSpec == FairInit /\ [][Next]_vars /\ WF_vars(Next)

----------------------------------------------------------------------------
(* Vocabulary of the properties. *)

ProbeOf(id) ==
    CASE id = "self" -> "OneAPI" [] id = "key" -> "OpenRouter"
      [] OTHER -> "NewAPI"

Rank(p) == CASE p = "NewAPI" -> 1 [] p = "OneAPI" -> 2 [] OTHER -> 3

ProbeNames == {Probes[i] : i \in 1..Len(Probes)}

\* the probe whose promise the loop of fetchUsage is awaiting, if any
Probing ==
    CASE pc \in {"awaitSubscription", "awaitUsage"} -> "NewAPI"
      [] pc = "awaitSelf" -> "OneAPI"
      [] pc = "awaitKey" -> "OpenRouter"
      [] OTHER -> "none"

IssuedProbes == {issued[i].probe : i \in 1..Len(issued)}

OpenRouterKeyUrl ==
    [base |-> <<"h","t","t","p","s",":","/","/","o","p","e","n","r","o","u",
                "t","e","r",".","a","i">>,
     path |-> "/api/v1/auth/key"]

AllZeroUnknown(msg) ==
    [todayUsed |-> [num |-> 0, den |-> 1], monthUsed |-> [num |-> 0, den |-> 1],
     totalUsed |-> [num |-> 0, den |-> 1], total |-> [num |-> 0, den |-> 1],
     remaining |-> [num |-> 0, den |-> 1], type |-> "unknown", error |-> msg]

----------------------------------------------------------------------------
\* C1: when the apiKey or the endpoint given to the constructor is empty,
\* fetchUsage issues no HTTP request at all and returns the all-zero record
\* of type 'unknown' with the error 'API Key or Endpoint not configured'.
C1_ConfigMissing ==
    (apiKeyArg = <<>> \/ endpointArg = <<>>) =>
        /\ issued = <<>>
        /\ inflight = {}
        /\ ~thrown
        /\ pc \in {"NotStarted", "returned"}
        /\ pc = "returned" =>
             result = AllZeroUnknown("API Key or Endpoint not configured")

\* fetchUsage has returned for a key without an endpoint
C1_Witness ==
    /\ pc = "returned"
    /\ apiKeyArg # <<>>
    /\ endpointArg = <<>>
    /\ result.type = "unknown"

\* C2: the detectors run in the order NewAPI, OneAPI, OpenRouter; the first
\* one that yields a record without an error member ends the invocation
\* with exactly that record, and no request of a later detector is ever
\* issued.
C2_FirstMatchWins ==
    /\ \A i, j \in 1..Len(issued) :
         i < j => Rank(issued[i].probe) <= Rank(issued[j].probe)
    /\ \A p, q \in ProbeNames :
         Rank(p) < Rank(q) /\ detected[q] # None => detected[p] # None
    /\ \A p \in ProbeNames :
         ("type" \in DOMAIN detected[p] /\ "error" \notin DOMAIN detected[p]) =>
            /\ pc = "returned"
            /\ result = detected[p]
            /\ \A q \in ProbeNames :
                 Rank(q) > Rank(p) => detected[q] = None /\ q \notin IssuedProbes

\* OneAPI matched on an endpoint for which OpenRouter would have been asked
C2_Witness ==
    /\ pc = "returned"
    /\ result.type = "OneAPI"
    /\ detected.NewAPI = Null
    /\ Includes(endpoint, OpenRouterHost)

\* C3, as stated: at every moment all the requests in flight belong to one
\* and the same probe.
C3_OneProbeInFlight ==
    \A a, b \in inflight : ProbeOf(a) = ProbeOf(b)

\* C3, amended: the subscription, /api/user/self and auth/key requests are
\* never in flight together, every request in flight belongs to the probe
\* being awaited, and the only exception are NewAPI usage requests left
\* behind after one of the three usage requests was rejected.
C3_OneProbeAwaited ==
    /\ \A a, b \in inflight \ Windows : a = b
    /\ \A a \in inflight :
         \/ ProbeOf(a) = Probing
         \/ /\ a \in Windows
            /\ \E w \in Windows : outcome[w].st = "rejected"
    /\ \A a \in inflight \ Windows : ProbeOf(a) = Probing

\* the OneAPI request is in flight beside a usage request left behind
C3_Witness ==
    /\ pc = "awaitSelf"
    /\ "self" \in inflight
    /\ inflight \cap Windows # {}

\* C4: with apiKey and endpoint set, when every detector has yielded null
\* (or thrown), fetchUsage returns the all-zero record of type 'unknown'
\* with the error 'Unable to detect API type'.
C4_Exhausted ==
    (\A p \in ProbeNames : detected[p] \in {Null, Throw}) =>
        /\ pc = "returned"
        /\ ~thrown
        /\ result = AllZeroUnknown("Unable to detect API type")

\* all three detectors were tried, the last one with a rejected request
C4_Witness ==
    /\ pc = "returned"
    /\ \A p \in ProbeNames : detected[p] = Null
    /\ outcome["key"].st = "rejected"
    /\ outcome["subscription"].st = "fulfilled"

IsAmount(a) == DOMAIN a = {"num", "den"} /\ a.den > 0

FullyPopulated(r) ==
    /\ {"todayUsed", "monthUsed", "totalUsed", "total", "remaining", "type"}
         \subseteq DOMAIN r
    /\ \A f \in {"todayUsed", "monthUsed", "totalUsed", "total", "remaining"} :
         IsAmount(r[f])
    /\ r.type \in {"NewAPI", "OneAPI", "OpenRouter", "unknown"}

\* C5: fetchUsage never throws: however the requests settle it is either
\* still awaiting a request in flight or has returned a record with all
\* five numbers and the type set, and when no detector produced a record
\* the returned record carries an error string.
C5_NeverThrows ==
    /\ ~thrown
    /\ Probing # "none" => \E a \in inflight : ProbeOf(a) = Probing
    /\ pc = "returned" =>
        /\ FullyPopulated(result)
        /\ (\A p \in ProbeNames : "type" \notin DOMAIN detected[p]) =>
              "error" \in DOMAIN result /\ result.error # ""

\* every request of the invocation was rejected and fetchUsage returned
C5_Witness ==
    /\ pc = "returned"
    /\ outcome["subscription"].st = "rejected"
    /\ outcome["self"].st = "rejected"
    /\ outcome["key"].st = "rejected"
    /\ "error" \in DOMAIN result


\* C6: what fetchUsage returns is either, whole and unchanged, the record
\* of the one detector that produced a record, or an all-zero record of
\* type 'unknown' with an error; never a record whose members come from
\* two detectors.
C6_OneSource ==
    pc = "returned" =>
        \/ /\ Cardinality({p \in ProbeNames : "type" \in DOMAIN detected[p]}) = 1
           /\ \E p \in ProbeNames :
                /\ "type" \in DOMAIN detected[p]
                /\ result = detected[p]
                /\ result.type = p
        \/ /\ \A p \in ProbeNames : "type" \notin DOMAIN detected[p]
           /\ "error" \in DOMAIN result
           /\ result = AllZeroUnknown(result.error)

\* OneAPI matched after NewAPI had read a limit of 50 and then failed
C6_Witness ==
    /\ pc = "returned"
    /\ result.type = "OneAPI"
    /\ outcome["subscription"].st = "fulfilled"
    /\ hardLimitUsd = 50
    /\ result.total # [num |-> 50, den |-> 1]

\* C7: when the subscription request succeeded and one of the three usage
\* requests is rejected, tryNewAPIBilling yields null, no NewAPI record is
\* returned, and the next request issued is the one to /api/user/self.
C7_PartialUsageFails ==
    (\E w \in Windows : outcome[w].st = "rejected") =>
        /\ outcome["subscription"].st = "fulfilled"
        /\ detected.NewAPI = Null
        /\ "type" \in DOMAIN result => result.type # "NewAPI"
        /\ Len(issued) >= 5
        /\ issued[5] = [id |-> "self", probe |-> "OneAPI",
                        url |-> [base |-> endpoint, path |-> "/api/user/self"]]

\* two usage requests succeeded with usage, the third was rejected
C7_Witness ==
    /\ outcome["today"] = Fulfilled([kind |-> "object", total_usage |-> Num(250)])
    /\ outcome["month"] = Fulfilled([kind |-> "object", total_usage |-> Num(4000)])
    /\ outcome["year"].st = "rejected"
    /\ pc = "awaitSelf"

\* C8: when the endpoint does not contain 'openrouter.ai', no request to
\* https://openrouter.ai/api/v1/auth/key is ever issued, whatever NewAPI
\* and OneAPI came to.
C8_NoOpenRouterRequest ==
    ~Includes(endpointArg,
              <<"o","p","e","n","r","o","u","t","e","r",".","a","i">>) =>
        /\ \A i \in 1..Len(issued) :
             issued[i].url # OpenRouterKeyUrl /\ issued[i].probe # "OpenRouter"
        /\ "key" \notin inflight
        /\ outcome["key"].st = "pending"

\* tryOpenRouter was reached on an endpoint that is not OpenRouter's
C8_Witness ==
    /\ pc = "returned"
    /\ detected.OpenRouter = Null
    /\ detected.OneAPI = Null
    /\ apiKey # <<>>
    /\ ~Includes(endpoint, OpenRouterHost)
    /\ Len(issued) >= 2

\* the wire number of a member of a body, when the body has that number
HasNumber(o, name) ==
    /\ o.st = "fulfilled"
    /\ o.data.kind = "object"
    /\ name \in DOMAIN o.data
    /\ o.data[name].t = "number"

\* amount a is n / d dollars
IsFraction(a, n, d) == a.num * d = n * a.den

\* C9: for a subscription with hard_limit_usd = L and usage totals of t, m
\* and y cents, the NewAPI record has todayUsed = t/100, monthUsed = m/100,
\* totalUsed = y/100 and type 'NewAPI'; total = L and remaining = L -
\* totalUsed when L < 1000000; total = 0 and remaining = 0 when
\* L >= 1000000.
C9_NewAPIRecord ==
    ( /\ "type" \in DOMAIN detected.NewAPI
      /\ HasNumber(outcome["subscription"], "hard_limit_usd")
      /\ \A w \in Windows : HasNumber(outcome[w], "total_usage") ) =>
        LET L == outcome["subscription"].data.hard_limit_usd.n
            t == outcome["today"].data.total_usage.n
            m == outcome["month"].data.total_usage.n
            y == outcome["year"].data.total_usage.n
            r == detected.NewAPI
        IN  /\ r.type = "NewAPI"
            /\ IsFraction(r.todayUsed, t, 100)
            /\ IsFraction(r.monthUsed, m, 100)
            /\ IsFraction(r.totalUsed, y, 100)
            /\ L < 1000000 =>
                 /\ r.total = [num |-> L, den |-> 1]
                 /\ Plus(r.remaining, r.totalUsed) = [num |-> L, den |-> 1]
            /\ L >= 1000000 =>
                 /\ r.total = [num |-> 0, den |-> 1]
                 /\ r.remaining = [num |-> 0, den |-> 1]
            /\ result = r

\* the scenario L = 50, t = 250, m = 4000, y = 4500
C9_Witness ==
    /\ outcome["subscription"] =
         Fulfilled([kind |-> "object", hard_limit_usd |-> Num(50)])
    /\ outcome["today"] = Fulfilled([kind |-> "object", total_usage |-> Num(250)])
    /\ outcome["month"] = Fulfilled([kind |-> "object", total_usage |-> Num(4000)])
    /\ outcome["year"] = Fulfilled([kind |-> "object", total_usage |-> Num(4500)])
    /\ result = [todayUsed |-> [num |-> 5, den |-> 2],
                 monthUsed |-> [num |-> 40, den |-> 1],
                 totalUsed |-> [num |-> 45, den |-> 1],
                 total |-> [num |-> 50, den |-> 1],
                 remaining |-> [num |-> 5, den |-> 1],
                 type |-> "NewAPI"]

\* C10: for a response {data: {quota: q, used_quota: u}} the OneAPI record
\* has remaining = q/500000, totalUsed = u/500000, total = remaining +
\* totalUsed, todayUsed = monthUsed = 0 and type 'OneAPI'.
C10_OneAPIRecord ==
    ( /\ "type" \in DOMAIN detected.OneAPI
      /\ outcome["self"].st = "fulfilled"
      /\ outcome["self"].data.kind = "object"
      /\ outcome["self"].data.data.t = "object"
      /\ outcome["self"].data.data.quota.t = "number"
      /\ outcome["self"].data.data.used_quota.t = "number" ) =>
        LET q == outcome["self"].data.data.quota.n
            u == outcome["self"].data.data.used_quota.n
            r == detected.OneAPI
        IN  /\ r.type = "OneAPI"
            /\ IsFraction(r.remaining, q, 500000)
            /\ IsFraction(r.totalUsed, u, 500000)
            /\ r.total = Plus(r.remaining, r.totalUsed)
            /\ r.todayUsed = [num |-> 0, den |-> 1]
            /\ r.monthUsed = [num |-> 0, den |-> 1]
            /\ result = r

\* the scenario q = 2500000, u = 500000 after a rejected subscription request
C10_Witness ==
    /\ outcome["subscription"].st = "rejected"
    /\ outcome["self"] =
         Fulfilled([kind |-> "object",
                    data |-> [t |-> "object", quota |-> Num(2500000),
                              used_quota |-> Num(500000)]])
    /\ result = [todayUsed |-> [num |-> 0, den |-> 1],
                 monthUsed |-> [num |-> 0, den |-> 1],
                 totalUsed |-> [num |-> 1, den |-> 1],
                 total |-> [num |-> 6, den |-> 1],
                 remaining |-> [num |-> 5, den |-> 1],
                 type |-> "OneAPI"]


\* C11: on an endpoint containing 'openrouter.ai', after NewAPI and OneAPI
\* failed, a response {data: {usage: U, limit: M}} gives totalUsed = U,
\* total = M (0 when limit is 0 or absent), remaining = M - U when M > 0
\* and 0 otherwise, todayUsed = monthUsed = 0 and type 'OpenRouter'.
C11_OpenRouterRecord ==
    ( /\ "type" \in DOMAIN detected.OpenRouter
      /\ outcome["key"].st = "fulfilled"
      /\ outcome["key"].data.kind = "object"
      /\ outcome["key"].data.data.t = "object"
      /\ outcome["key"].data.data.usage.t = "number" ) =>
        LET u == outcome["key"].data.data.usage
            l == outcome["key"].data.data.limit
            ud == IF "d" \in DOMAIN u THEN u.d ELSE 1
            M == IF l.t = "number" THEN l.n ELSE 0
            r == detected.OpenRouter
        IN  /\ Includes(endpoint, OpenRouterHost)
            /\ detected.NewAPI = Null /\ detected.OneAPI = Null
            /\ r.type = "OpenRouter"
            /\ IsFraction(r.totalUsed, u.n, ud)
            /\ r.total = [num |-> M, den |-> 1]
            /\ M > 0 => Plus(r.remaining, r.totalUsed) = [num |-> M, den |-> 1]
            /\ M <= 0 => r.remaining = [num |-> 0, den |-> 1]
            /\ r.todayUsed = [num |-> 0, den |-> 1]
            /\ r.monthUsed = [num |-> 0, den |-> 1]
            /\ result = r

\* the scenario usage = 12.34, limit = 100: remaining is 87.66
C11_Witness ==
    /\ outcome["key"] =
         Fulfilled([kind |-> "object",
                    data |-> [t |-> "object", usage |-> Dec(1234, 100),
                              limit |-> Num(100)]])
    /\ result = [todayUsed |-> [num |-> 0, den |-> 1],
                 monthUsed |-> [num |-> 0, den |-> 1],
                 totalUsed |-> [num |-> 617, den |-> 50],
                 total |-> [num |-> 100, den |-> 1],
                 remaining |-> [num |-> 4383, den |-> 50],
                 type |-> "OpenRouter"]


\* C12: in every record fetchUsage returns, remaining is total minus
\* totalUsed when there is a total, and remaining is 0 when total is 0,
\* also for a NewAPI record whose subscription reports hard_limit_usd as 0
\* or not at all while usage is positive.
C12_RemainingFollowsTotal ==
    pc = "returned" =>
        /\ result.total = [num |-> 0, den |-> 1] =>
             result.remaining = [num |-> 0, den |-> 1]
        /\ result.total.num > 0 =>
             Plus(result.remaining, result.totalUsed) = result.total

\* JSON object body of a fulfilled request that lacks the member
LacksMember(o, name) ==
    /\ o.st = "fulfilled"
    /\ o.data.kind = "object"
    /\ Get(o.data, name) = [t |-> "undefined"]

\* C13: a response that is JSON but lacks the member its detector expects
\* disqualifies the detector like a failed request: a subscription body
\* without hard_limit_usd, or a usage body without total_usage, yields no
\* NewAPI record; a body without data yields no OneAPI and no OpenRouter
\* record, and the next detector is tried.
C13_SchemaMismatchDisqualifies ==
    /\ ( \/ LacksMember(outcome["subscription"], "hard_limit_usd")
         \/ \E w \in Windows : LacksMember(outcome[w], "total_usage") ) =>
            "type" \notin DOMAIN detected.NewAPI
    /\ LacksMember(outcome["self"], "data") =>
            detected.OneAPI = Null /\ (detected.OpenRouter # None \/ pc = "awaitKey")
    /\ LacksMember(outcome["key"], "data") =>
            detected.OpenRouter = Null /\ pc = "returned"

\* C14: every record fetchUsage returns has its five numbers and a type
\* among 'NewAPI', 'OneAPI', 'OpenRouter', 'unknown', and has an error
\* member exactly when no detector matched, which is exactly when its type
\* is 'unknown'.
C14_ErrorIffUnknown ==
    pc = "returned" =>
        /\ FullyPopulated(result)
        /\ "error" \in DOMAIN result <=> result.type = "unknown"
        /\ result.type = "unknown" <=>
             \A p \in ProbeNames : "type" \notin DOMAIN detected[p]

\* an OpenRouter record was returned, and it has no error member
C14_Witness ==
    /\ pc = "returned"
    /\ result.type = "OpenRouter"
    /\ "error" \notin DOMAIN result
    /\ result.totalUsed.num > 0


IssuedIds == {issued[i].id : i \in 1..Len(issued)}

\* C16, as stated: tryNewAPIBilling is a blocking join: it has an outcome,
\* and the loop has gone on to /api/user/self, only when none of the three
\* usage requests is still pending.
C16_BlockingJoin ==
    (detected.NewAPI # None \/ "self" \in IssuedIds) =>
        inflight \cap Windows = {}

\* C16, amended: tryNewAPIBilling yields a record only when all three
\* usage requests are fulfilled; as soon as one of them is rejected it
\* yields null, whatever the state of the other two, so that while it is
\* still awaiting the join no usage request has been rejected.
C16_JoinFailsFast ==
    /\ "type" \in DOMAIN detected.NewAPI =>
         \A w \in Windows : outcome[w].st = "fulfilled"
    /\ pc = "awaitUsage" =>
         /\ detected.NewAPI = None
         /\ \A w \in Windows : outcome[w].st \in {"pending", "fulfilled"}
         /\ \E w \in Windows : outcome[w].st = "pending"
    /\ (\E w \in Windows : outcome[w].st = "rejected") =>
         detected.NewAPI = Null /\ "self" \in IssuedIds
    /\ inflight \cap Windows # {} /\ pc # "awaitUsage" =>
         \E w \in Windows : outcome[w].st = "rejected"

\* one usage request was rejected while the other two are still pending,
\* and the request to /api/user/self is already out
C16_Witness ==
    /\ pc = "awaitSelf"
    /\ Cardinality(inflight \cap Windows) = 2
    /\ \E w \in Windows : outcome[w].st = "rejected"

PcRank(at) ==
    CASE at = "NotStarted" -> 0
      [] at = "awaitSubscription" -> 1
      [] at = "awaitUsage" -> 2
      [] at = "awaitSelf" -> 3
      [] at = "awaitKey" -> 4
      [] OTHER -> 5

\* C17: provided every request issued settles, every fetchUsage invocation
\* comes to its return, and on the way it only moves forward through
\* NotStarted, NewAPI, OneAPI, OpenRouter and the return.
C17_Terminates ==
    /\ <>(pc = "returned")
    /\ [][PcRank(pc) <= PcRank(pc')]_vars
    /\ [][pc = "returned" => pc' = "returned" /\ result' = result]_vars

\* the invocation went through all three detectors and returned
C17_Witness ==
    /\ pc = "returned"
    /\ detected.OpenRouter # None
    /\ Len(issued) = 6

\* C18: nothing is retried: every request of an invocation is issued at
\* most once (the usage request once per date window), so that at most six
\* are issued, and one rejected request makes its detector yield null.
C18_NoRetry ==
    /\ \A i, j \in 1..Len(issued) : issued[i].id = issued[j].id => i = j
    /\ Len(issued) <= 6
    /\ Cardinality({i \in 1..Len(issued) :
                      issued[i].url.path = "/v1/dashboard/billing/usage"}) <= 3
    /\ \A i, j \in 1..Len(issued) : issued[i] = issued[j] => i = j
    /\ \A id \in RequestIds :
         outcome[id].st = "rejected" => detected[ProbeOf(id)] = Null

\* six requests were issued, two of them rejected
C18_Witness ==
    /\ Len(issued) = 6
    /\ outcome["month"].st = "rejected"
    /\ outcome["self"].st = "rejected"
    /\ outcome["key"].st # "pending"


----------------------------------------------------------------------------
(* The date windows of tryNewAPIBilling.  An instant is a number of hours  *)
(* since 2024-01-01T00:00Z; the time zone is a fixed number of hours east  *)
(* of UTC.  A date string YYYY-MM-DD is the triple of its numbers.         *)

IsLeap(y) == y % 4 = 0 /\ (y % 100 # 0 \/ y % 400 = 0)

DaysInYear(y) == IF IsLeap(y) THEN 366 ELSE 365

\* month is 0..11, as JavaScript counts
DaysInMonth(y, month) ==
    CASE month = 1 -> IF IsLeap(y) THEN 29 ELSE 28
      [] month \in {3, 5, 8, 10} -> 30
      [] OTHER -> 31

RECURSIVE DaysBeforeYear(_)
DaysBeforeYear(y) ==
    IF y <= 2024 THEN 0 ELSE DaysBeforeYear(y - 1) + DaysInYear(y - 1)

RECURSIVE DaysBeforeMonth(_, _)
DaysBeforeMonth(y, month) ==
    IF month = 0 THEN 0
    ELSE DaysBeforeMonth(y, month - 1) + DaysInMonth(y, month - 1)

\* the day count of the calendar date y, month (0..11), day
DayNumber(y, month, day) ==
    DaysBeforeYear(y) + DaysBeforeMonth(y, month) + (day - 1)

RECURSIVE YearOfDay(_, _)
YearOfDay(n, y) ==
    IF n < DaysBeforeYear(y + 1) THEN y ELSE YearOfDay(n, y + 1)

RECURSIVE MonthOfDay(_, _, _)
MonthOfDay(n, y, month) ==
    IF n < DayNumber(y, month, 1) + DaysInMonth(y, month) THEN month
    ELSE MonthOfDay(n, y, month + 1)

\* the calendar date of a day count: year, month (0..11), day
CivilFromDay(n) ==
    LET y == YearOfDay(n, 2024)
        month == MonthOfDay(n, y, 0)
    IN  [year |-> y, month |-> month, day |-> n - DayNumber(y, month, 1) + 1]

\* Date.prototype.getFullYear and getMonth: fields of the local time
GetFullYear(t, tz) == CivilFromDay((t + tz) \div 24).year
GetMonth(t, tz) == CivilFromDay((t + tz) \div 24).month

\* new Date(year, month, day): midnight of that date in local time
NewDate(y, month, day, tz) == DayNumber(y, month, day) * 24 - tz

\* date.toISOString().split('T')[0]: the date in UTC
formatDate(t) ==
    LET c == CivilFromDay(t \div 24) IN <<c.year, c.month + 1, c.day>>

\* the start_date and end_date of the three usage requests
UsageParams(now, tz) ==
    LET todayStart == formatDate(now)
        todayEnd == formatDate(now)
        monthStart ==
            formatDate(NewDate(GetFullYear(now, tz), GetMonth(now, tz), 1, tz))
        yearStart == formatDate(NewDate(GetFullYear(now, tz), 0, 1, tz))
    IN  [today |-> [start_date |-> todayStart, end_date |-> todayEnd],
         month |-> [start_date |-> monthStart, end_date |-> todayEnd],
         year |-> [start_date |-> yearStart, end_date |-> todayEnd]]

\* the days (UTC) and the time zones that are tried, every hour of the day
SampleDays ==
    { DayNumber(2024, 1, 29), DayNumber(2024, 2, 1), DayNumber(2024, 11, 31),
      DayNumber(2025, 0, 1), DayNumber(2026, 0, 31), DayNumber(2026, 10, 15) }
TimeZones == {-11, -5, 0, 1, 8, 13}

\* the provider is not in use
ProviderIdle ==
    /\ apiKeyArg = <<>> /\ endpointArg = <<>>
    /\ apiKey = <<>> /\ endpoint = <<>>
    /\ pc = "NotStarted" /\ issued = <<>> /\ inflight = {}
    /\ outcome = [id \in RequestIds |-> Pending]
    /\ hardLimitUsd = 0
    /\ detected = [NewAPI |-> None, OneAPI |-> None, OpenRouter |-> None]
    /\ result = None /\ thrown = FALSE

DateInit ==
    /\ ProviderIdle
    /\ duo = None
    /\ ext = None
    /\ cc = None
    /\ \E d \in SampleDays, h \in 0..23, tz \in TimeZones :
         clock = [now |-> d * 24 + h, tz |-> tz, params |-> None]

\* tryNewAPIBilling reads the clock and derives the three windows
ComputeWindows ==
    /\ clock.params = None
    /\ clock' = [clock EXCEPT !.params = UsageParams(clock.now, clock.tz)]
    /\ UNCHANGED <<provider, duo, ext, cc>>

DateNext == ComputeWindows

DateSpec == DateInit /\ [][DateNext]_vars

\* a date string is not after another
DateLeq(a, b) ==
    \/ a[1] < b[1]
    \/ a[1] = b[1] /\ a[2] < b[2]
    \/ a[1] = b[1] /\ a[2] = b[2] /\ a[3] <= b[3]

\* the windows that the date `today` of some calendar calls for
WindowsOf(today) ==
    [today |-> [start_date |-> today, end_date |-> today],
     month |-> [start_date |-> <<today[1], today[2], 1>>, end_date |-> today],
     year |-> [start_date |-> <<today[1], 1, 1>>, end_date |-> today]]

\* the date of instant t in UTC and in local time
UtcDate(t) == formatDate(t)
LocalDate(t, tz) == formatDate(t + tz)

\* C19: at every instant and in every time zone the three usage queries end
\* today and start today, on the first day of the current month and on
\* January 1 of the current year, all three read off one calendar, and no
\* query starts after it ends.
C19_DateWindows ==
    clock.params # None =>
        /\ \/ clock.params = WindowsOf(UtcDate(clock.now))
           \/ clock.params = WindowsOf(LocalDate(clock.now, clock.tz))
        /\ \A w \in Windows :
             DateLeq(clock.params[w].start_date, clock.params[w].end_date)

----------------------------------------------------------------------------
(* The extension: its module-level state and its handlers.  `ext` holds     *)
(* the module variables of extension.ts (statusBarItem, refreshInterval,   *)
(* lastUsage, ccSwitchWatcher, currentProviderName) and, around them, what  *)
(* the handlers read and start: the VSCode settings, the provider CC Switch *)
(* reports as current, the live interval timers, the pending delayed       *)
(* callbacks of the file watcher and the refreshUsage runs.                 *)

\* refreshUsage runs in one behaviour; delayed watcher callbacks pending
MaxRuns == 2
MaxPending == 1

\* the providers CC Switch may report as current (null: none at all)
CCProviders ==
    { Null,
      [apiKey |-> "sk-a", endpoint |-> "https://a.example", name |-> "A"],
      [apiKey |-> "sk-b", endpoint |-> "https://b.example", name |-> "B"],
      [apiKey |-> "sk-c", endpoint |-> "", name |-> "C"] }

\* the apiUsageTracker section of the VSCode settings
Settings ==
    { [apiKey |-> "", endpoint |-> "", refreshInterval |-> 300,
       initialBalance |-> 0],
      [apiKey |-> "sk-s", endpoint |-> "https://s.example",
       refreshInterval |-> 300, initialBalance |-> 50],
      [apiKey |-> "sk-s", endpoint |-> "https://s.example",
       refreshInterval |-> 0, initialBalance |-> 0],
      [apiKey |-> "sk-s", endpoint |-> "https://s.example",
       refreshInterval |-> -1, initialBalance |-> 50] }

\* what fetchUsage can return for a key: the account's figures from the
\* backend that answers for it, or the record of an exhausted detection
AccountUsage(key) ==
    CASE key = "sk-a" ->
           UsageResult(Dollars(1), Dollars(2), Dollars(3), Dollars(10),
                       Dollars(7), "NewAPI")
      [] key = "sk-b" ->
           UsageResult(Zero, Zero, Amount(5, 2), Zero, Zero, "OneAPI")
      [] OTHER ->
           UsageResult(Zero, Zero, Amount(1, 8), Dollars(20),
                       Amount(159, 8), "OpenRouter")
FetchResults(key) == { AccountUsage(key), Exhausted }

\* the open watcher returned by fs.watch
Watcher == [tag |-> "watcher"]

\* `[name] ` or nothing
Prefix(name) == IF name = "" THEN <<>> ELSE <<"[", name, "] ">>

\* Number.prototype.toFixed(digits) of an amount: the nearest multiple of
\* 10^-digits, as its sign and its count of such units
RECURSIVE Pow10(_)
Pow10(d) == IF d = 0 THEN 1 ELSE 10 * Pow10(d - 1)
ToFixed(a, digits) ==
    [negative |-> a.num < 0,
     units |-> (2 * Abs(a.num) * Pow10(digits) + a.den) \div (2 * a.den),
     digits |-> digits]

IsPositive(a) == a.num > 0

\* getApiConfig: the current CC Switch provider when it is usable, else the
\* VSCode settings with no provider name
getApiConfig(e) ==
    IF /\ e.installed
       /\ e.current # Null
       /\ e.current.apiKey # ""
       /\ e.current.endpoint # ""
    THEN [apiKey |-> e.current.apiKey, endpoint |-> e.current.endpoint,
          providerName |-> e.current.name]
    ELSE [apiKey |-> e.settings.apiKey, endpoint |-> e.settings.endpoint,
          providerName |-> ""]

\* the status bar text that updateStatusBar writes for a result
StatusText(e, usage) ==
    LET prefix == Prefix(e.currentProviderName)
        initialBalance == Dollars(e.settings.initialBalance)
        hasApiBalance == IsPositive(usage.total)
        remaining ==
            IF hasApiBalance THEN usage.remaining
            ELSE IF IsPositive(initialBalance)
                 THEN Minus(initialBalance, usage.totalUsed)
                 ELSE Zero
    IN  IF HasError(usage)
        THEN [icon |-> "warning", prefix |-> prefix, error |-> usage.error]
        ELSE IF hasApiBalance \/ IsPositive(initialBalance)
             THEN [icon |-> "credit-card", prefix |-> prefix,
                   remaining |-> ToFixed(remaining, 2)]
             ELSE [icon |-> "credit-card", prefix |-> prefix,
                   today |-> ToFixed(usage.todayUsed, 2)]

updateStatusBar(e, usage) ==
    [e EXCEPT !.statusBarItem = StatusText(e, usage)]

\* refreshUsage up to its first await, or to its early return
refreshUsage(e) ==
    LET c == getApiConfig(e)
        e1 == [e EXCEPT !.currentProviderName = c.providerName]
    IN  IF c.apiKey = "" \/ c.endpoint = ""
        THEN [e1 EXCEPT
                !.statusBarItem =
                    IF e.installed THEN [icon |-> "plug"]
                    ELSE [icon |-> "key"],
                !.runs = Append(@, [apiKey |-> c.apiKey,
                                    providerName |-> c.providerName,
                                    state |-> "returned", result |-> None])]
        ELSE [e1 EXCEPT
                !.statusBarItem =
                    [icon |-> "sync~spin",
                     prefix |-> Prefix(c.providerName)],
                !.runs = Append(@, [apiKey |-> c.apiKey,
                                    providerName |-> c.providerName,
                                    state |-> "inflight", result |-> None])]

\* clearInterval(refreshInterval) when a handle is held
ClearHeldInterval(e) ==
    IF e.refreshInterval # None
    THEN [e EXCEPT !.timers = @ \ {e.refreshInterval}]
    ELSE e

\* a new interval set without clearing the one that is held
setupAutoRefreshLeaking(e) ==
    LET handle == [id |-> e.nextTimer]
    IN  IF e.settings.refreshInterval > 0
        THEN [e EXCEPT !.refreshInterval = handle,
                       !.timers = @ \cup {handle},
                       !.nextTimer = @ + 1]
        ELSE e

setupAutoRefresh(e) ==
    LET cleared == ClearHeldInterval(e)
        handle == [id |-> e.nextTimer]
    IN  IF e.settings.refreshInterval > 0
        THEN [cleared EXCEPT !.refreshInterval = handle,
                             !.timers = @ \cup {handle},
                             !.nextTimer = @ + 1]
        ELSE cleared

ExtInit ==
    /\ ProviderIdle
    /\ clock = None
    /\ duo = None
    /\ cc = None
    /\ \E inst \in BOOLEAN, cur \in CCProviders, s \in Settings :
         ext = [phase |-> "inactive", installed |-> inst, current |-> cur,
                settings |-> s, statusBarItem |-> None,
                refreshInterval |-> None, timers |-> {}, nextTimer |-> 1,
                ccSwitchWatcher |-> Null, pending |-> 0, lastUsage |-> Null,
                currentProviderName |-> "", runs |-> <<>>]

CanStart == Len(ext.runs) < MaxRuns

ExtOnly == UNCHANGED <<provider, clock, duo, cc>>

\* activate: the status bar item, the listeners, the watcher when CC Switch
\* is installed (fs.watch may fail or settings.json may be missing), then
\* setupAutoRefresh() and refreshUsage()
Activate ==
    /\ ext.phase = "inactive"
    /\ \E w \in IF ext.installed THEN {Null, Watcher} ELSE {Null} :
         ext' = refreshUsage(setupAutoRefresh(
                  [ext EXCEPT !.phase = "active",
                              !.statusBarItem = [icon |-> ""],
                              !.ccSwitchWatcher = w]))
    /\ ExtOnly

\* onDidChangeConfiguration for the apiUsageTracker section
ConfigurationChanged ==
    /\ ext.phase = "active"
    /\ CanStart
    /\ \E s \in Settings \ {ext.settings} :
         ext' = refreshUsage(setupAutoRefresh([ext EXCEPT !.settings = s]))
    /\ ExtOnly

\* CC Switch rewrites settings.json or its database: another provider is
\* current; an open watcher schedules its callback 500 ms later
CCSwitchChanged ==
    /\ ext.phase # "inactive"
    /\ ext.installed
    /\ ext.pending < MaxPending
    /\ \E cur \in CCProviders \ {ext.current} :
         ext' = [ext EXCEPT
                   !.current = cur,
                   !.pending =
                       IF ext.ccSwitchWatcher = Watcher THEN @ + 1 ELSE @]
    /\ ExtOnly

\* the delayed callback of the watcher
WatcherCallback ==
    /\ ext.pending > 0
    /\ CanStart
    /\ ext' = refreshUsage([ext EXCEPT !.pending = @ - 1])
    /\ ExtOnly

\* a live interval timer fires
IntervalTick ==
    /\ ext.timers # {}
    /\ CanStart
    /\ ext' = refreshUsage(ext)
    /\ ExtOnly

\* the apiUsageTracker.refresh command
RefreshCommand ==
    /\ ext.phase = "active"
    /\ CanStart
    /\ ext' = refreshUsage(ext)
    /\ ExtOnly

\* fetchUsage of run i returns: refreshUsage resumes after its await
FetchUsageReturns ==
    /\ \E i \in 1..Len(ext.runs) :
         /\ ext.runs[i].state = "inflight"
         /\ \E r \in FetchResults(ext.runs[i].apiKey) :
              ext' = updateStatusBar(
                       [ext EXCEPT !.runs[i].state = "done",
                                   !.runs[i].result = r,
                                   !.lastUsage = r], r)
    /\ ExtOnly

\* deactivate: the held interval is cleared and the watcher closed
Deactivate ==
    /\ ext.phase = "active"
    /\ ext' = [ClearHeldInterval(ext) EXCEPT
                 !.phase = "deactivated",
                 !.ccSwitchWatcher =
                     IF @ = Watcher THEN [tag |-> "closed"] ELSE @]
    /\ ExtOnly

ExtNext ==
    \/ Activate
    \/ ConfigurationChanged
    \/ CCSwitchChanged
    \/ WatcherCallback
    \/ IntervalTick
    \/ RefreshCommand
    \/ FetchUsageReturns
    \/ Deactivate

ExtSpec == ExtInit /\ [][ExtNext]_vars

\* the runs that reached fetchUsage, and whether none is still in flight
Fetching == { i \in 1..Len(ext.runs) : ext.runs[i].state # "returned" }
AllReturned == \A i \in Fetching : ext.runs[i].state = "done"

\* C20: once no refresh is in flight, lastUsage and the status bar hold the
\* result of the refresh that was started last, whatever the order in which
\* overlapping refreshes completed.
C20_StaleDiscarded ==
    (ext # None /\ Len(ext.runs) \in Fetching /\ AllReturned) =>
        LET latest == ext.runs[Len(ext.runs)].result
        IN  /\ ext.lastUsage = latest
            /\ ext.statusBarItem = StatusText(ext, latest)

----------------------------------------------------------------------------
(* Two UniversalProvider instances, each with one fetchUsage invocation,    *)
(* their steps interleaved.  Everything an invocation keeps is a field of   *)
(* its instance (client, apiKey, endpoint) or a local of its call; `duo`    *)
(* holds one such record per instance, and whether the two invocations     *)
(* were ever suspended at the same time.                                    *)

Instances == {1, 2}

\* the credentials of the two instances
InstanceKey(i) == IF i = 1 THEN <<"s","k">> ELSE <<"s","k","2">>

\* the endpoints the instances are constructed with
DuoEndpoints ==
    { Https \o ExampleHost \o <<"/">>,
      Https \o OpenRouterHost \o <<"/","a","p","i">> }

\* what a backend answers to a request made with a key: the figures of the
\* account of that key
AccountBody(key, id) ==
    LET first == key = InstanceKey(1)
    IN  CASE id = "subscription" ->
               [kind |-> "object",
                hard_limit_usd |-> Num(IF first THEN 50 ELSE 1)]
          [] id \in Windows ->
               [kind |-> "object",
                total_usage |-> Num(IF first THEN 250 ELSE 1)]
          [] id = "self" ->
               [kind |-> "object",
                data |-> [t |-> "object",
                          quota |-> Num(IF first THEN 2500000 ELSE 1),
                          used_quota |-> Num(IF first THEN 500000 ELSE 0)]]
          [] OTHER ->
               [kind |-> "object",
                data |-> [t |-> "object",
                          usage |-> Num(IF first THEN 100 ELSE 1),
                          limit |-> Num(IF first THEN 100 ELSE 0)]]

\* how a request made with a key settles
AccountOutcomes(key, id) == {Rejected, Fulfilled(AccountBody(key, id))}

\* the constructor
Construct(key, e) ==
    [apiKey |-> key,
     endpoint |-> StripTrailingSlash(e),
     client |-> [headers |-> [Authorization |-> <<"Bearer ", key>>]],
     pc |-> "NotStarted", issued |-> <<>>, inflight |-> {},
     outcome |-> [id \in RequestIds |-> Pending],
     hardLimitUsd |-> 0,
     detected |-> [NewAPI |-> None, OneAPI |-> None, OpenRouter |-> None],
     result |-> None, thrown |-> FALSE]

\* this.client.get: the request leaves with the headers of the client
Sent(s, reqs) ==
    [k \in 1..Len(reqs) |-> [request |-> reqs[k], headers |-> s.client.headers]]

\* an instance moves to control state c, as Goto does for the one invocation
Moved(s, c, settled) ==
    [s EXCEPT !.pc = c.pc,
              !.issued = @ \o Sent(s, c.reqs),
              !.inflight = (@ \ settled) \cup Ids(c.reqs),
              !.detected = c.detected,
              !.result = IF c.out = Throw THEN None ELSE c.out,
              !.thrown = (c.out = Throw)]

\* hardLimitUsd kept in one module-level variable for all instances
StoredShared(inst, i, s) ==
    [j \in DOMAIN inst |->
        IF j = i THEN s ELSE [inst[j] EXCEPT !.hardLimitUsd = s.hardLimitUsd]]

\* the fields and locals of instance i take the values s
Stored(inst, i, s) == [inst EXCEPT ![i] = s]

Suspended(s) == s.pc \notin {"NotStarted", "returned"}

\* instance i now holds s
DuoStep(i, s) ==
    LET inst == Stored(duo.inst, i, s)
    IN  /\ duo' = [inst |-> inst,
                   overlapped |-> \/ duo.overlapped
                                  \/ \A j \in Instances : Suspended(inst[j])]
        /\ UNCHANGED <<provider, clock, ext, cc>>

DuoInit ==
    /\ ProviderIdle
    /\ clock = None
    /\ ext = None
    /\ cc = None
    /\ \E e1, e2 \in DuoEndpoints :
         duo = [inst |-> [i \in Instances |->
                            Construct(InstanceKey(i),
                                      IF i = 1 THEN e1 ELSE e2)],
                overlapped |-> FALSE]

DuoFetchUsage(i) ==
    LET s == duo.inst[i]
    IN  /\ s.pc = "NotStarted"
        /\ DuoStep(i, Moved(s, Called(s.apiKey, s.endpoint, s.detected), {}))

DuoSubscriptionSettles(i) ==
    LET s == duo.inst[i]
    IN  /\ s.pc = "awaitSubscription"
        /\ "subscription" \in s.inflight
        /\ \E o \in AccountOutcomes(s.apiKey, "subscription") :
            LET x == NewAPISubscribed(o)
                s1 == [s EXCEPT !.outcome["subscription"] = o]
            IN  IF x = Null
                THEN DuoStep(i, Moved(s1, AfterNewAPI(s.endpoint, Null,
                                                      s.detected),
                                      {"subscription"}))
                ELSE DuoStep(i, Moved([s1 EXCEPT
                                         !.hardLimitUsd = x.hardLimitUsd],
                                      [pc |-> "awaitUsage",
                                       reqs |-> UsageRequests(s.endpoint),
                                       detected |-> s.detected,
                                       out |-> None],
                                      {"subscription"}))

DuoUsageSettles(i) ==
    LET s == duo.inst[i]
    IN  /\ s.pc = "awaitUsage"
        /\ \E w \in Windows \cap s.inflight :
           \E o \in AccountOutcomes(s.apiKey, w) :
            LET s1 == [s EXCEPT !.outcome[w] = o]
                x == NewAPIJoined(s.hardLimitUsd, s1.outcome)
            IN  IF x = None
                THEN DuoStep(i, Moved(s1, [pc |-> "awaitUsage", reqs |-> <<>>,
                                           detected |-> s.detected,
                                           out |-> None], {w}))
                ELSE DuoStep(i, Moved(s1, AfterNewAPI(s.endpoint, x,
                                                      s.detected), {w}))

DuoUsageSettlesUnobserved(i) ==
    LET s == duo.inst[i]
    IN  /\ s.pc # "awaitUsage"
        /\ \E w \in Windows \cap s.inflight :
             DuoStep(i, [s EXCEPT !.outcome[w] = Unobserved,
                                  !.inflight = @ \ {w}])

DuoSelfSettles(i) ==
    LET s == duo.inst[i]
    IN  /\ s.pc = "awaitSelf"
        /\ "self" \in s.inflight
        /\ \E o \in AccountOutcomes(s.apiKey, "self") :
             DuoStep(i, Moved([s EXCEPT !.outcome["self"] = o],
                              AfterOneAPI(s.endpoint, OneAPIResponded(o),
                                          s.detected),
                              {"self"}))

DuoKeySettles(i) ==
    LET s == duo.inst[i]
    IN  /\ s.pc = "awaitKey"
        /\ "key" \in s.inflight
        /\ \E o \in AccountOutcomes(s.apiKey, "key") :
             DuoStep(i, Moved([s EXCEPT !.outcome["key"] = o],
                              AfterOpenRouter(OpenRouterResponded(o),
                                              s.detected),
                              {"key"}))

DuoNext ==
    \/ \E i \in Instances : DuoFetchUsage(i)
    \/ \E i \in Instances : DuoSubscriptionSettles(i)
    \/ \E i \in Instances : DuoUsageSettles(i)
    \/ \E i \in Instances : DuoUsageSettlesUnobserved(i)
    \/ \E i \in Instances : DuoSelfSettles(i)
    \/ \E i \in Instances : DuoKeySettles(i)

DuoSpec == DuoInit /\ [][DuoNext]_vars

\* what fetchUsage returns when it runs alone with the key and the endpoint
\* and its requests settle as in outs
Alone(key, e, outs) ==
    IF ConfigMissing(key, e) THEN NotConfigured
    ELSE LET sub == NewAPISubscribed(outs["subscription"])
             a == IF sub = Null THEN Null
                  ELSE NewAPIJoined(sub.hardLimitUsd, outs)
             b == OneAPIResponded(outs["self"])
             c == IF OpenRouterApplies(e) THEN OpenRouterResponded(outs["key"])
                  ELSE Null
         IN  IF Accept(a) THEN a
             ELSE IF Accept(b) THEN b
             ELSE IF Accept(c) THEN c
             ELSE Exhausted

\* the limit an instance holds is the one of its own subscription response
OwnLimit(s) ==
    s.outcome["subscription"].st = "fulfilled" =>
        s.hardLimitUsd = NewAPISubscribed(s.outcome["subscription"]).hardLimitUsd

\* C15: two invocations on two instances with different keys, interleaved
\* in any order: each returns the record it would return alone for the way
\* its own requests settled, holds the limit of its own subscription, and
\* sends every request with its own key and, but for the fixed OpenRouter
\* address, to its own endpoint.
C15_Independent ==
    duo # None =>
        \A i \in Instances :
            LET s == duo.inst[i]
            IN  /\ s.pc = "returned" =>
                     s.result = Alone(s.apiKey, s.endpoint, s.outcome)
                /\ OwnLimit(s)
                /\ \A k \in 1..Len(s.issued) :
                     /\ s.issued[k].headers.Authorization =
                            <<"Bearer ", InstanceKey(i)>>
                     /\ s.issued[k].request.id # "key" =>
                            s.issued[k].request.url.base = s.endpoint

\* both invocations were suspended at the same time and both have returned
\* a usage record, each from its own account
C15_Witness ==
    /\ duo # None
    /\ duo.overlapped
    /\ \A i \in Instances :
         /\ duo.inst[i].pc = "returned"
         /\ duo.inst[i].result.type = "NewAPI"
    /\ duo.inst[1].result # duo.inst[2].result

----------------------------------------------------------------------------
(* The order of the requests inside the Format A probe. *)

UsageIssued == \E k \in 1..Len(issued) : issued[k].id \in Windows

\* the subscription request failed, or answered with nothing
SubscriptionUnusable ==
    \/ outcome["subscription"].st = "rejected"
    \/ /\ outcome["subscription"].st = "fulfilled"
       /\ BodyFalsy(outcome["subscription"].data)

\* C21, as stated: usage requests are issued only after the subscription
\* request returned a non-empty body that has no error member; when the
\* subscription request fails, or its body is empty or has an error member,
\* the probe returns null and no usage request is issued.
C21_UsageAfterSubscription ==
    /\ UsageIssued =>
         /\ outcome["subscription"].st = "fulfilled"
         /\ ~BodyFalsy(outcome["subscription"].data)
         /\ "error" \notin DOMAIN outcome["subscription"].data
    /\ ( \/ SubscriptionUnusable
         \/ /\ outcome["subscription"].st = "fulfilled"
            /\ "error" \in DOMAIN outcome["subscription"].data )
       => detected.NewAPI = Null /\ ~UsageIssued

\* C21, amended: the error member counts only when it is truthy: usage
\* requests are issued only after the subscription request returned a
\* non-empty body whose error member is absent or falsy (null, 0, ''), and
\* when the request fails, or the body is empty or has a truthy error
\* member, the probe returns null and no usage request is issued.
C21_UsageAfterErrorFreeSubscription ==
    /\ UsageIssued =>
         /\ outcome["subscription"].st = "fulfilled"
         /\ ~BodyFalsy(outcome["subscription"].data)
         /\ ~Truthy(Get(outcome["subscription"].data, "error"))
    /\ ( \/ SubscriptionUnusable
         \/ /\ outcome["subscription"].st = "fulfilled"
            /\ Truthy(Get(outcome["subscription"].data, "error")) )
       => detected.NewAPI = Null /\ ~UsageIssued

\* the subscription answered with a truthy error member and the probe gave
\* up: the next detector is awaited and one request only came before it
C21_Witness ==
    /\ outcome["subscription"].st = "fulfilled"
    /\ ~BodyFalsy(outcome["subscription"].data)
    /\ Truthy(Get(outcome["subscription"].data, "error"))
    /\ detected.NewAPI = Null
    /\ pc = "awaitSelf"
    /\ Len(issued) = 2

----------------------------------------------------------------------------
(* The auto-refresh interval timer. *)

\* C24: whatever the sequence of activate, configuration changes and
\* deactivate, at most one interval timer is live; none is live while the
\* configured refreshInterval is zero or negative, and none after
\* deactivate.
C24_OneTimer ==
    ext # None =>
        /\ Cardinality(ext.timers) <= 1
        /\ ext.settings.refreshInterval <= 0 => ext.timers = {}
        /\ ext.phase = "deactivated" => ext.timers = {}
        /\ ext.timers \subseteq {ext.refreshInterval}

\* a configuration change replaced the first timer: the second one is the
\* only one live
C24_Witness ==
    /\ ext # None
    /\ ext.phase = "active"
    /\ ext.nextTimer = 3
    /\ ext.timers = {[id |-> 2]}

----------------------------------------------------------------------------
(* The provider name shown beside the figures. *)

\* the status bar shows figures behind a `[name] ` prefix
ShowsNamedFigures ==
    /\ ext.statusBarItem # None
    /\ ext.statusBarItem.icon = "credit-card"
    /\ ext.statusBarItem.prefix # <<>>

\* run i fetched with the credentials of the provider the status bar names,
\* and the status bar shows the figures of its result
RenderedFrom(i) ==
    /\ ext.runs[i].state = "done"
    /\ Prefix(ext.runs[i].providerName) = ext.statusBarItem.prefix
    /\ ext.statusBarItem =
         StatusText([ext EXCEPT !.currentProviderName =
                                    ext.runs[i].providerName],
                    ext.runs[i].result)

\* C22: under any interleaving of overlapping refreshes, figures shown
\* behind a `[name] ` prefix were fetched by a run that captured that
\* provider's name and credentials when it started.
C22_NameMatchesFigures ==
    (ext # None /\ ShowsNamedFigures) =>
        \E i \in 1..Len(ext.runs) : RenderedFrom(i)

----------------------------------------------------------------------------
(* After deactivate. *)

\* C25: once deactivate has run, no step starts a refreshUsage run and no
\* step changes the status bar, whether or not a watcher callback was
\* pending or a refresh was in flight when it ran.
C25_QuietAfterDeactivate ==
    [][ext.phase = "deactivated" =>
         /\ Len(ext'.runs) = Len(ext.runs)
         /\ ext'.statusBarItem = ext.statusBarItem]_vars

----------------------------------------------------------------------------
(* CC Switch: its database, its settings.json, the settings.json of Claude, *)
(* and the two operations of ccswitch.ts on them: resolving the current    *)
(* provider and switching it.  `cc` holds the files, what the last         *)
(* resolution produced and what the last switchProvider returned.          *)
(* A missing or empty string member is the empty string.                    *)

\* calls of switchProvider in one behaviour
MaxCalls == 2

\* the rows of table providers with app_type 'claude'
ProviderRows ==
    { [id |-> "a", name |-> "A", sort_index |-> 2,
       env |-> [ANTHROPIC_AUTH_TOKEN |-> "sk-a", ANTHROPIC_API_KEY |-> "",
                ANTHROPIC_BASE_URL |-> "https://a.example"]],
      [id |-> "b", name |-> "B", sort_index |-> 1,
       env |-> [ANTHROPIC_AUTH_TOKEN |-> "", ANTHROPIC_API_KEY |-> "sk-b",
                ANTHROPIC_BASE_URL |-> "https://b.example"]],
      [id |-> "c", name |-> "C", sort_index |-> 1,
       env |-> [ANTHROPIC_AUTH_TOKEN |-> "", ANTHROPIC_API_KEY |-> "",
                ANTHROPIC_BASE_URL |-> "https://c.example"]] }

\* cc-switch.db: missing, unreadable (sqlite3 fails or a row does not parse),
\* or holding some rows
DbStates ==
    { [state |-> "absent"], [state |-> "unreadable"] }
    \cup { [state |-> "ok", rows |-> rows] : rows \in SUBSET ProviderRows }

\* the provider ids a caller may pass or a settings file may name
ProviderIds == {"a", "b", "c", "ghost"}

\* settings.json of CC Switch: missing, not JSON, or an object whose
\* currentProviderClaude may be missing
SettingsFiles ==
    { [state |-> "absent"], [state |-> "corrupt"] }
    \cup { [state |-> "ok", currentProviderClaude |-> id] :
             id \in ProviderIds \cup {""} }

\* a || b on strings
OrString(a, b) == IF a # "" THEN a ELSE b

\* isCCSwitchInstalled: the database file exists
isCCSwitchInstalled(db) == db.state # "absent"

\* readCCSwitchSettings: the parsed object, or null
readCCSwitchSettings(file) == IF file.state = "ok" THEN file ELSE Null

\* settings?.currentProviderClaude
CurrentProviderId(file) ==
    LET settings == readCCSwitchSettings(file)
    IN  IF settings = Null THEN "" ELSE settings.currentProviderClaude

\* SELECT ... ORDER BY sort_index ASC: every order of the rows that ascends
QueryResults(db) ==
    IF db.state # "ok" THEN { <<>> }
    ELSE { q \in [1..Cardinality(db.rows) -> db.rows] :
             /\ \A j, k \in DOMAIN q : j # k => q[j] # q[k]
             /\ \A j, k \in DOMAIN q :
                  j < k => q[j].sort_index <= q[k].sort_index }

\* the object built for one row
ToProvider(row, currentProviderId) ==
    [id |-> row.id,
     name |-> row.name,
     endpoint |-> OrString(row.env.ANTHROPIC_BASE_URL, ""),
     apiKey |-> OrString(row.env.ANTHROPIC_AUTH_TOKEN,
                         OrString(row.env.ANTHROPIC_API_KEY, "")),
     isCurrent |-> row.id = currentProviderId]

\* readCCSwitchProviders, q being what the query returns: no provider when
\* the database is missing or reading it throws
readCCSwitchProviders(db, file, q) ==
    IF db.state # "ok" THEN <<>>
    ELSE [k \in 1..Len(q) |-> ToProvider(q[k], CurrentProviderId(file))]

\* the first provider, whichever is marked current
getCurrentProviderFirst(providers) ==
    IF Len(providers) > 0 THEN providers[1] ELSE Null

\* providers.find(p => p.isCurrent) || providers[0] || null
getCurrentProvider(providers) ==
    LET marked == { k \in 1..Len(providers) : providers[k].isCurrent }
    IN  IF marked # {}
        THEN providers[CHOOSE k \in marked : \A j \in marked : k <= j]
        ELSE IF Len(providers) > 0 THEN providers[1]
        ELSE Null

\* what can go wrong during switchProvider
Failures == {"none", "writeSettings", "readProviders", "queryConfig",
             "writeClaude"}

\* switchProvider(providerId), with the step that throws, if any, and what
\* the query of readCCSwitchProviders returns
switchProvider(c, providerId, fail, q) ==
    IF fail = "writeSettings" THEN [c EXCEPT !.returned = "false"]
    ELSE
      LET written == [state |-> "ok", currentProviderClaude |-> providerId]
          c1 == [c EXCEPT !.settingsFile = written]
          providers ==
              IF fail = "readProviders" THEN <<>>
              ELSE readCCSwitchProviders(c.db, written, q)
      IN  IF \A k \in 1..Len(providers) : providers[k].id # providerId
          THEN [c1 EXCEPT !.returned = "false"]
          ELSE IF fail \in {"queryConfig", "writeClaude"}
          THEN [c1 EXCEPT !.returned = "false"]
          ELSE [c1 EXCEPT !.claudeSettings =
                              [state |-> "ok", env |-> providerId],
                          !.returned = "true"]

CCOnly == UNCHANGED <<provider, clock, duo, ext>>

CCInit ==
    /\ ProviderIdle
    /\ clock = None
    /\ duo = None
    /\ ext = None
    /\ \E db \in DbStates, file \in SettingsFiles, s \in Settings :
         cc = [db |-> db, settingsFile |-> file,
               claudeSettings |-> [state |-> "absent"], vscode |-> s,
               calls |-> 0, returned |-> "none", resolved |-> None]

\* a refresh resolves its credentials: getApiConfig
ResolveCredentials ==
    /\ cc.resolved = None
    /\ \E q \in QueryResults(cc.db) :
         LET providers == readCCSwitchProviders(cc.db, cc.settingsFile, q)
             current == getCurrentProvider(providers)
         IN  cc' = [cc EXCEPT !.resolved =
                      [providers |-> providers,
                       current |-> current,
                       config |->
                         getApiConfig(
                           [installed |-> isCCSwitchInstalled(cc.db),
                            current |-> current,
                            settings |-> cc.vscode])]]
    /\ CCOnly

\* the user picks a provider: switchProvider(providerId)
SwitchProvider ==
    /\ cc.calls < MaxCalls
    /\ \E providerId \in ProviderIds, fail \in Failures,
          q \in QueryResults(cc.db) :
         cc' = [switchProvider(cc, providerId, fail, q) EXCEPT
                  !.calls = @ + 1, !.resolved = None]
    /\ CCOnly

CCNext ==
    \/ ResolveCredentials
    \/ SwitchProvider

CCSpec == CCInit /\ [][CCNext]_vars

\* the rows the database holds, none when it cannot be read
RowsOf(db) == IF db.state = "ok" THEN db.rows ELSE {}

\* C23: whenever a call of switchProvider returns false, settings.json of
\* CC Switch has the currentProviderClaude value it had before the call.
C23_AllOrNothing ==
    [][(cc'.calls # cc.calls /\ cc'.returned = "false") =>
          CurrentProviderId(cc'.settingsFile) =
              CurrentProviderId(cc.settingsFile)]_vars

\* the provider a resolution is to find: the row named by settings.json,
\* else a row that sorts first, else none
Expected(rows, id) ==
    IF \E r \in rows : r.id = id THEN { r \in rows : r.id = id }
    ELSE { r \in rows : \A o \in rows : r.sort_index <= o.sort_index }

\* C26: getCurrentProvider returns the provider whose id is
\* currentProviderClaude of settings.json, else the first provider in sort
\* order, else null, and at most one provider is marked isCurrent;
\* getApiConfig takes apiKey, endpoint and name from that provider exactly
\* when CC Switch is installed and the provider has a non-empty apiKey and
\* a non-empty endpoint, and otherwise takes the VSCode settings with an
\* empty provider name.
C26_CredentialResolution ==
    (cc # None /\ cc.resolved # None) =>
        LET r == cc.resolved
            rows == RowsOf(cc.db)
            id == CurrentProviderId(cc.settingsFile)
            usable == /\ isCCSwitchInstalled(cc.db)
                      /\ r.current # Null
                      /\ r.current.apiKey # ""
                      /\ r.current.endpoint # ""
        IN  /\ Cardinality({ k \in 1..Len(r.providers) :
                               r.providers[k].isCurrent }) <= 1
            /\ IF rows = {} THEN r.current = Null
               ELSE /\ r.current # Null
                    /\ \E row \in Expected(rows, id) :
                         /\ r.current.id = row.id
                         /\ r.current.name = row.name
                         /\ r.current.endpoint = row.env.ANTHROPIC_BASE_URL
                         /\ r.current.apiKey =
                                IF row.env.ANTHROPIC_AUTH_TOKEN # ""
                                THEN row.env.ANTHROPIC_AUTH_TOKEN
                                ELSE row.env.ANTHROPIC_API_KEY
            /\ IF usable
               THEN r.config = [apiKey |-> r.current.apiKey,
                                endpoint |-> r.current.endpoint,
                                providerName |-> r.current.name]
               ELSE r.config = [apiKey |-> cc.vscode.apiKey,
                                endpoint |-> cc.vscode.endpoint,
                                providerName |-> ""]

\* settings.json names provider a while b and c sort before it: a is the
\* current provider and its credentials are the ones used
C26_Witness ==
    /\ cc # None
    /\ cc.resolved # None
    /\ cc.settingsFile = [state |-> "ok", currentProviderClaude |-> "a"]
    /\ cc.db = [state |-> "ok", rows |-> ProviderRows]
    /\ cc.resolved.current.id = "a"
    /\ cc.resolved.config.providerName = "A"
    /\ cc.resolved.config.apiKey = "sk-a"

============================================================================
